---------------------------- MODULE Spec2Model ----------------------------
(***************************************************************************)
(* State-machine model of the MM3000 market-making client.                 *)
(*                                                                         *)
(*   - OrderBook            (src/order_book.py)                            *)
(*   - WebSocketClient      (src/websocket_client.py) with the handlers    *)
(*                          main.py registers on it                        *)
(*   - MarketMaker          (src/market_maker.py), PnLTracker              *)
(*                          (src/pnl_tracker.py) and the exchange behind   *)
(*                          OrderExecutor (src/order_executor.py)          *)
(*   - FastMarketMaker      (src/fast_market_maker.py)                     *)
(*                                                                         *)
(* Prices are integers counted in ticks, quantities integers counted in    *)
(* lots.  The specifications share the variables: SpecFeed and SpecOp      *)
(* drive the WebSocketClient, SpecMM the MarketMaker, SpecFast the         *)
(* FastMarketMaker.                                                        *)
(***************************************************************************)
EXTENDS Integers, Sequences, FiniteSets, Bags, TLC

\* ------------------------------------------------------------------ bounds
\* Feed versions range over 0..MaxVersion.
MaxVersion == 3
\* Prices of the feed model range over 1..MaxPrice (ticks).
MaxPrice == 1
\* A delta or snapshot carries at most MaxLevels levels per side.
MaxLevels == 1
\* At most MaxTasks tasks of a kind are queued at a time.
MaxTasks == 1
\* The exchange accepts at most MaxOrders orders.
MaxOrders == 1
\* At most MaxFastTasks update tasks per side are alive at a time.
MaxFastTasks == 1
\* The exchange accepts at most MaxFastOrders orders of the FastMarketMaker.
MaxFastOrders == 2

\* Prices of the one-cycle and of the book model range over 1..MaxBookPrice.
MaxBookPrice == 3
\* The exchange of the one-cycle model accepts at most MaxCycleOrders orders.
MaxCycleOrders == 2

\* The ledger model records at most MaxTrades trades, at prices of
\* 1..MaxTradePrice and quantities of 1..MaxTradeQty.
MaxTrades == 3
MaxTradePrice == 2
MaxTradeQty == 2

\* The quotes calculate_optimal_prices is given range over 1..MaxQuote (ticks).
MaxQuote == 8

\* ------------------------------------------------------ program constants
\* MarketMaker.order_quantity, the unit quantities are counted in (one lot).
order_quantity == 1
\* MarketMaker.tick_size, the unit prices are counted in (one tick).
tick_size == 1

Prices == 1..MaxPrice
Versions == 0..MaxVersion
\* A feed level is removed (quantity 0) or holds one lot.
FeedQtys == {0, order_quantity}

\* ------------------------------------------------------------- variables
VARIABLES
  bids,             \* OrderBook.bids: price -> quantity, on the prices present
  asks,             \* OrderBook.asks
  current_version,  \* WebSocketClient.current_version
  needs_resync,     \* WebSocketClient.needs_resync
  ev,               \* the last WebSocketClient operation and its outcome
  arg,              \* the message or snapshot the last operation was given
  baseline,         \* run_loop: the snapshot the book rests on: "none", "stale", "fresh"
  ou_tasks,         \* MarketMaker.on_orderbook_update tasks created, not yet run
  current,          \* side -> MarketMaker.current_buy / current_sell
  waiting,          \* side -> handle_buy / handle_sell tasks waiting for the lock
  pc,               \* side -> the gateway call the lock holder awaits, or "idle"
  resp,             \* side -> the OrderResponse on its way back to the holder
  exch,             \* the exchange's orders, by order id: side and status
  pnl,              \* MarketMaker.pnl_tracker
  fast_order,       \* side -> FastMarketMaker.buy_order / sell_order
  fast,             \* FastMarketMaker's counters: position
  upd,              \* the update_buy_order / update_sell_order tasks alive (a bag)
  fills             \* FastMarketMaker.check_fills_periodically: where it stands

\* ------------------------------------------------------------- OrderBook
EmptySide == [p \in {} |-> 0]

\* update_bid / update_ask without the test for quantity 0: every quantity
\* is stored.
update_level_stores_zero(side, price, quantity) ==
  [p \in (DOMAIN side) \cup {price} |-> IF p = price THEN quantity ELSE side[p]]

\* OrderBook.update_bid / update_ask: quantity 0 pops the price, any other
\* quantity is stored as given.
update_level(side, price, quantity) ==
  IF quantity = 0
    THEN [p \in (DOMAIN side) \ {price} |-> side[p]]
    ELSE [p \in (DOMAIN side) \cup {price} |->
             IF p = price THEN quantity ELSE side[p]]

update_bid(b, price, quantity) == update_level(b, price, quantity)

update_ask(a, price, quantity) == update_level(a, price, quantity)

SetMax(S) == CHOOSE x \in S : \A y \in S : y <= x
SetMin(S) == CHOOSE x \in S : \A y \in S : x <= y

\* max(self.bids.keys(), default=0.0)
get_best_bid(b) == IF DOMAIN b = {} THEN 0 ELSE SetMax(DOMAIN b)

\* min(self.asks.keys(), default=0.0)
get_best_ask(a) == IF DOMAIN a = {} THEN 0 ELSE SetMin(DOMAIN a)

\* get_second_best_bid sorting without reverse=True.
get_second_best_bid_ascending(b) ==
  IF Cardinality(DOMAIN b) < 2 THEN 0
  ELSE SetMin((DOMAIN b) \ {SetMin(DOMAIN b)})

get_second_best_bid(b) ==
  IF Cardinality(DOMAIN b) < 2 THEN 0
  ELSE SetMax((DOMAIN b) \ {SetMax(DOMAIN b)})

get_second_best_ask(a) ==
  IF Cardinality(DOMAIN a) < 2 THEN 0
  ELSE SetMin((DOMAIN a) \ {SetMin(DOMAIN a)})

\* self.bids.get(price, 0.0)
get_bid_quantity(b, price) == IF price \in DOMAIN b THEN b[price] ELSE 0

get_ask_quantity(a, price) == IF price \in DOMAIN a THEN a[price] ELSE 0

\* OrderBook.clear
clear ==
  /\ bids' = EmptySide
  /\ asks' = EmptySide

\* The loop "for price, qty in levels: order_book.update_xxx(price, qty)" of
\* the handlers of main.py, applied to the side map `side`.
RECURSIVE apply_levels(_, _)
apply_levels(side, levels) ==
  IF levels = <<>> THEN side
  ELSE apply_levels(update_level(side, Head(levels)[1], Head(levels)[2]),
                    Tail(levels))

\* ------------------------------------------------------- feed messages
\* DeltaVersionStatus
Valid == 0
Outdated == 1
GapDetected == 2
NotSequential == 3

Level == Prices \X FeedQtys

RECURSIVE SeqsUpTo(_, _)
SeqsUpTo(S, n) ==
  IF n = 0 THEN {<<>>}
  ELSE LET shorter == SeqsUpTo(S, n - 1)
       IN shorter \cup {Append(s, x) : s \in {t \in shorter : Len(t) = n - 1}, x \in S}

\* Level lists as the exchange sends them: each price at most once.
LevelLists ==
  {s \in SeqsUpTo(Level, MaxLevels) :
      \A i, j \in 1..Len(s) : i # j => s[i][1] # s[j][1]}

NoDepth == [fromVersion |-> 0, toVersion |-> 0, bids |-> <<>>, asks |-> <<>>]

\* A websocket message: text (the subscription acknowledgement), bytes that
\* parse to an empty wrapper, bytes without publicAggreDepths, a depth delta,
\* or bytes that are no protobuf message ("malformed").
DeltaMessages ==
  {[kind |-> "delta", depth |-> d] :
     d \in [fromVersion : Versions, toVersion : Versions,
            bids : LevelLists, asks : LevelLists]}

Messages ==
  {[kind |-> k, depth |-> NoDepth] : k \in {"text", "empty", "nodepth", "malformed"}}
  \cup DeltaMessages

\* The JSON of GET /api/v3/depth; NoId stands for a body without lastUpdateId.
NoId == -1
Snapshots ==
  [bids : LevelLists, asks : LevelLists, lastUpdateId : Versions \cup {NoId}]

NoSnapshot == [bids |-> <<>>, asks |-> <<>>, lastUpdateId |-> NoId]

\* ev: op is what ran last: "init"; "ignored" (a message that is no depth
\* delta), "dropped" (a message arriving while needs_resync), "delta" (a depth
\* delta that reached classification), "raised" (bytes on which
\* ParseFromString raised), "snapshot", "reconnect".  kind is the
\* kind of the message, status the classification of a delta against the
\* version before the step, called whether on_orderbook_update was invoked.
Event(op, kind, status, called) ==
  [op |-> op, kind |-> kind, status |-> status, called |-> called]

NoArg == [message |-> [kind |-> "none", depth |-> NoDepth], snapshot |-> NoSnapshot]

\* ------------------------------------------------------ WebSocketClient
\* Mutant: the gap test made before the outdated test.
get_delta_version_status_gap_first(from_version, to_version) ==
  IF from_version > current_version + 1 THEN GapDetected
  ELSE IF to_version < current_version THEN Outdated
  ELSE IF from_version # current_version + 1 THEN NotSequential
  ELSE Valid

get_delta_version_status(from_version, to_version) ==
  IF to_version < current_version THEN Outdated
  ELSE IF from_version > current_version + 1 THEN GapDetected
  ELSE IF from_version # current_version + 1 THEN NotSequential
  ELSE Valid

\* main.py orderbook_update_handler: every bid, then every ask of the update.
orderbook_update_handler(update) ==
  /\ bids' = apply_levels(bids, update.bids)
  /\ asks' = apply_levels(asks, update.asks)

\* Mutant: the snapshot applied without clearing the book first.
orderbook_snapshot_handler_no_clear(snapshot) ==
  /\ bids' = apply_levels(bids, snapshot.bids)
  /\ asks' = apply_levels(asks, snapshot.asks)

\* main.py orderbook_snapshot_handler: clear, then every bid and every ask.
orderbook_snapshot_handler(snapshot) ==
  /\ bids' = apply_levels(EmptySide, snapshot.bids)
  /\ asks' = apply_levels(EmptySide, snapshot.asks)

\* Mutant: no early return while needs_resync is set.
handle_binary_delta_no_resync_guard(message) ==
  LET depth  == message.depth
      status == get_delta_version_status(depth.fromVersion, depth.toVersion)
  IN
  IF message.kind = "malformed" THEN
    /\ ev' = Event("raised", message.kind, Valid, FALSE)
    /\ UNCHANGED <<bids, asks, current_version, needs_resync>>
  ELSE IF message.kind \in {"empty", "nodepth"} THEN
    /\ ev' = Event("ignored", message.kind, Valid, FALSE)
    /\ UNCHANGED <<bids, asks, current_version, needs_resync>>
  ELSE IF status \in {GapDetected, NotSequential} THEN
    /\ needs_resync' = TRUE
    /\ ev' = Event("delta", message.kind, status, FALSE)
    /\ UNCHANGED <<bids, asks, current_version>>
  ELSE
    /\ orderbook_update_handler([bids |-> depth.bids, asks |-> depth.asks])
    /\ current_version' = depth.toVersion
    /\ ev' = Event("delta", message.kind, status, TRUE)
    /\ UNCHANGED needs_resync

\* Mutant: a delta that does not follow on is applied before the resync is
\* asked for.
handle_binary_delta_gap_applied(message) ==
  LET depth  == message.depth
      status == get_delta_version_status(depth.fromVersion, depth.toVersion)
  IN
  IF needs_resync THEN
    /\ ev' = Event("dropped", message.kind, status, FALSE)
    /\ UNCHANGED <<bids, asks, current_version, needs_resync>>
  ELSE IF message.kind = "malformed" THEN
    /\ ev' = Event("raised", message.kind, Valid, FALSE)
    /\ UNCHANGED <<bids, asks, current_version, needs_resync>>
  ELSE IF message.kind \in {"empty", "nodepth"} THEN
    /\ ev' = Event("ignored", message.kind, Valid, FALSE)
    /\ UNCHANGED <<bids, asks, current_version, needs_resync>>
  ELSE IF status \in {GapDetected, NotSequential} THEN
    /\ orderbook_update_handler([bids |-> depth.bids, asks |-> depth.asks])
    /\ needs_resync' = TRUE
    /\ ev' = Event("delta", message.kind, status, FALSE)
    /\ UNCHANGED current_version
  ELSE
    /\ orderbook_update_handler([bids |-> depth.bids, asks |-> depth.asks])
    /\ current_version' = depth.toVersion
    /\ ev' = Event("delta", message.kind, status, TRUE)
    /\ UNCHANGED needs_resync

\* ParseFromString raises DecodeError on bytes that are no protobuf message
\* and returns the number of bytes read otherwise: 0, which the test at its
\* call takes for a failure, on the empty message only.
handle_binary_delta(message) ==
  LET depth  == message.depth
      status == get_delta_version_status(depth.fromVersion, depth.toVersion)
  IN
  IF needs_resync THEN
    /\ ev' = Event("dropped", message.kind, status, FALSE)
    /\ UNCHANGED <<bids, asks, current_version, needs_resync>>
  ELSE IF message.kind = "malformed" THEN
    /\ ev' = Event("raised", message.kind, Valid, FALSE)
    /\ UNCHANGED <<bids, asks, current_version, needs_resync>>
  ELSE IF message.kind \in {"empty", "nodepth"} THEN
    /\ ev' = Event("ignored", message.kind, Valid, FALSE)
    /\ UNCHANGED <<bids, asks, current_version, needs_resync>>
  ELSE IF status \in {GapDetected, NotSequential} THEN
    /\ needs_resync' = TRUE
    /\ ev' = Event("delta", message.kind, status, FALSE)
    /\ UNCHANGED <<bids, asks, current_version>>
  ELSE
    /\ orderbook_update_handler([bids |-> depth.bids, asks |-> depth.asks])
    /\ current_version' = depth.toVersion
    /\ ev' = Event("delta", message.kind, status, TRUE)
    /\ UNCHANGED needs_resync

handle_received_data(message) ==
  IF message.kind = "text" THEN
    /\ ev' = Event("ignored", message.kind, Valid, FALSE)
    /\ UNCHANGED <<bids, asks, current_version, needs_resync>>
  ELSE handle_binary_delta(message)

get_order_book_snapshot(snapshot_json) ==
  /\ orderbook_snapshot_handler([bids |-> snapshot_json.bids,
                                 asks |-> snapshot_json.asks])
  /\ current_version' =
       IF snapshot_json.lastUpdateId = NoId THEN 0 ELSE snapshot_json.lastUpdateId
  /\ needs_resync' = FALSE
  /\ ev' = Event("snapshot", "none", Valid, FALSE)

\* run_loop's ConnectionClosed branch: sleep, connect, send_subscription.
reconnect ==
  /\ ev' = Event("reconnect", "none", Valid, FALSE)
  /\ UNCHANGED <<bids, asks, current_version, needs_resync>>

\* get_order_book_snapshot when the request or the reading of its answer
\* raises: nothing is assigned, and the exception leaves run_loop, which
\* calls it outside its try.
snapshot_failed ==
  /\ ev' = Event("failed", "none", Valid, FALSE)
  /\ UNCHANGED <<bids, asks, current_version, needs_resync>>

\* Where run_loop stands: awaiting the snapshot ("resync"), awaiting recv
\* ("recv"), or ended by an exception its try does not catch ("stopped"):
\* one of the snapshot request or one of ParseFromString.  The test of needs_resync
\* that opens an iteration is made as the iteration before it ends; after
\* the snapshot the loop goes on to recv.
run_loop_pc ==
  IF ev.op \in {"failed", "raised"} THEN "stopped"
  ELSE IF ev.op = "snapshot" THEN "recv"
  ELSE IF needs_resync THEN "resync"
  ELSE "recv"

\* ------------------------------------------------------------ PnLTracker
\* fee_rate = 0.001: fees are counted in thousandths.
FeeRateDenominator == 1000

Trade(order_id, side, price, quantity) ==
  [order_id |-> order_id, side |-> side, price |-> price, quantity |-> quantity]

\* PnLTracker.__init__; realized_pnl is the fraction <<numerator, denominator>>.
InitPnL ==
  [trades |-> <<>>, position |-> 0,
   total_buy_value |-> 0, total_sell_value |-> 0,
   total_buy_quantity |-> 0, total_sell_quantity |-> 0,
   realized_pnl |-> <<0, 1>>, fees_paid |-> 0]

Min(a, b) == IF a <= b THEN a ELSE b

\* PnLTracker._update_realized_pnl on the tracker t:
\* (avg_sell - avg_buy) * matched - fees, with avg = value / quantity and fees
\* in thousandths, over the common denominator.
update_realized_pnl(t) ==
  LET matched_quantity == Min(t.total_buy_quantity, t.total_sell_quantity) IN
  IF matched_quantity > 0
    THEN [t EXCEPT !.realized_pnl =
            << (t.total_sell_value * t.total_buy_quantity
                  - t.total_buy_value * t.total_sell_quantity)
                 * matched_quantity * FeeRateDenominator
               - t.fees_paid * t.total_sell_quantity * t.total_buy_quantity,
               t.total_sell_quantity * t.total_buy_quantity * FeeRateDenominator >>]
    ELSE t

\* add_trade with "self.position += quantity" in its SELL branch too.
add_trade_unsigned(t, order_id, side, price, quantity) ==
  LET t1 == [t EXCEPT !.trades = Append(@, Trade(order_id, side, price, quantity)),
                      !.fees_paid = @ + price * quantity]
      t2 == IF side = "BUY"
              THEN [t1 EXCEPT !.position = @ + quantity,
                              !.total_buy_value = @ + price * quantity,
                              !.total_buy_quantity = @ + quantity]
              ELSE [t1 EXCEPT !.position = @ + quantity,
                              !.total_sell_value = @ + price * quantity,
                              !.total_sell_quantity = @ + quantity]
  IN update_realized_pnl(t2)

\* PnLTracker.add_trade on the tracker t.
add_trade(t, order_id, side, price, quantity) ==
  LET t1 == [t EXCEPT !.trades = Append(@, Trade(order_id, side, price, quantity)),
                      !.fees_paid = @ + price * quantity]
      t2 == IF side = "BUY"
              THEN [t1 EXCEPT !.position = @ + quantity,
                              !.total_buy_value = @ + price * quantity,
                              !.total_buy_quantity = @ + quantity]
              ELSE [t1 EXCEPT !.position = @ - quantity,
                              !.total_sell_value = @ + price * quantity,
                              !.total_sell_quantity = @ + quantity]
  IN update_realized_pnl(t2)

\* ----------------------------------------------------------- MarketMaker
Sides == {"BUY", "SELL"}

\* Optional[PendingOrder]: None, or a PendingOrder; order_id 0 is "".
None ==
  [none |-> TRUE, order_id |-> 0, side |-> "", price |-> 0, quantity |-> 0,
   is_pending |-> FALSE]

PendingOrder(order_id, side, price, quantity, is_pending) ==
  [none |-> FALSE, order_id |-> order_id, side |-> side, price |-> price,
   quantity |-> quantity, is_pending |-> is_pending]

\* OrderResponse: success, order_id and status; NoResponse while none is due.
NoResponse == [due |-> FALSE, success |-> FALSE, order_id |-> 0, status |-> ""]

OrderResponse(success, order_id, status) ==
  [due |-> TRUE, success |-> success, order_id |-> order_id, status |-> status]

is_only_one_at_current_bid_level ==
  IF current["BUY"].none THEN FALSE
  ELSE get_bid_quantity(bids, current["BUY"].price) = current["BUY"].quantity

\* As the source has it: the ask-side test reads get_bid_quantity.
is_only_one_at_current_ask_level ==
  IF current["SELL"].none THEN FALSE
  ELSE get_bid_quantity(bids, current["SELL"].price) = current["SELL"].quantity

\* should_cancel_current_buy without its last line: only the sole-at-level
\* test cancels.
should_cancel_current_buy_sole_only ==
  LET distance_to_second_bid == get_best_bid(bids) - get_second_best_bid(bids) IN
  is_only_one_at_current_bid_level /\ distance_to_second_bid > tick_size

\* should_cancel_current_buy answering True whatever the book shows.
should_cancel_current_buy_always == TRUE

\* should_cancel_current_buy without the sole-at-level test: only the price
\* comparison cancels.
should_cancel_current_buy_price_only ==
  current["BUY"].price # get_best_bid(bids)

should_cancel_current_buy ==
  LET distance_to_second_bid == get_best_bid(bids) - get_second_best_bid(bids) IN
  IF is_only_one_at_current_bid_level /\ distance_to_second_bid > tick_size
    THEN TRUE
    ELSE current["BUY"].price # get_best_bid(bids)

should_cancel_current_sell ==
  LET distance_to_second_ask == get_second_best_ask(asks) - get_best_ask(asks) IN
  IF is_only_one_at_current_ask_level /\ distance_to_second_ask > tick_size
    THEN TRUE
    ELSE current["SELL"].price # get_best_ask(asks)

should_cancel_current(side) ==
  IF side = "BUY" THEN should_cancel_current_buy ELSE should_cancel_current_sell

\* The price a new order of the side is placed at: get_best_bid / get_best_ask.
top_of_book(side) ==
  IF side = "BUY" THEN get_best_bid(bids) ELSE get_best_ask(asks)

\* place_new_*_order_if_needed without its test: an order is placed whatever
\* the side holds.
place_needed_always(cur) == TRUE

\* The test that opens place_new_buy_order_if_needed / ..._sell_..., on the
\* order cur.
place_needed(cur) ==
  cur.none \/ (~cur.none /\ cur.order_id = 0 /\ ~cur.is_pending)

\* The test that opens check_current_buy_order / check_current_sell_order.
check_needed(cur) ==
  ~cur.none /\ cur.order_id # 0 /\ ~cur.is_pending

\* place_new_buy_order_if_needed / ..._sell_... up to its await, entered with
\* the side's order being cur: the placeholder is stored and the place call
\* sent, or nothing is done, the coroutine returns and handle_buy /
\* handle_sell releases the lock.
place_new_order_if_needed(side, cur) ==
  IF place_needed(cur)
    THEN /\ current' = [current EXCEPT ![side] =
                PendingOrder(0, side, top_of_book(side), order_quantity, TRUE)]
         /\ pc' = [pc EXCEPT ![side] = "place"]
    ELSE /\ current' = [current EXCEPT ![side] = cur]
         /\ pc' = [pc EXCEPT ![side] = "idle"]

\* handle_buy / handle_sell without "async with self.buy_lock / sell_lock": a
\* task runs whether or not another task of the side is suspended in a call.
handle_no_lock(side) ==
  /\ waiting[side] > 0
  /\ waiting' = [waiting EXCEPT ![side] = @ - 1]
  /\ IF check_needed(current[side])
       THEN /\ pc' = [pc EXCEPT ![side] = "status"]
            /\ UNCHANGED current
       ELSE place_new_order_if_needed(side, current[side])
  /\ UNCHANGED <<bids, asks, ou_tasks, resp, exch, pnl>>

\* handle_buy / handle_sell with one lock for both sides: a task runs only
\* while no task of either side holds it.
handle_global_lock(side) ==
  /\ waiting[side] > 0
  /\ \A s \in Sides : pc[s] = "idle"
  /\ waiting' = [waiting EXCEPT ![side] = @ - 1]
  /\ IF check_needed(current[side])
       THEN /\ pc' = [pc EXCEPT ![side] = "status"]
            /\ UNCHANGED current
       ELSE place_new_order_if_needed(side, current[side])
  /\ UNCHANGED <<bids, asks, ou_tasks, resp, exch, pnl>>

\* handle_buy / handle_sell from the lock's acquisition to the first await:
\* check_current_*_order sends the status request, or is skipped and
\* place_new_*_order_if_needed runs.
handle(side) ==
  /\ waiting[side] > 0
  /\ pc[side] = "idle"
  /\ waiting' = [waiting EXCEPT ![side] = @ - 1]
  /\ IF check_needed(current[side])
       THEN /\ pc' = [pc EXCEPT ![side] = "status"]
            /\ UNCHANGED current
       ELSE place_new_order_if_needed(side, current[side])
  /\ UNCHANGED <<bids, asks, ou_tasks, resp, exch, pnl>>

\* check_current_*_order after the status poll, without "self.current_* =
\* None": the trade of a FILLED order is recorded and the order kept.
status_returned_keeps_closed(side) ==
  LET status == resp[side] cur == current[side] IN
  /\ pc[side] = "status"
  /\ status.due
  /\ resp' = [resp EXCEPT ![side] = NoResponse]
  /\ IF status.success /\ status.status \in {"FILLED", "CANCELED"}
       THEN /\ pnl' = IF status.status = "FILLED"
                        THEN add_trade(pnl, cur.order_id, side, cur.price, cur.quantity)
                        ELSE pnl
            /\ place_new_order_if_needed(side, cur)
       ELSE IF status.success /\ should_cancel_current(side)
       THEN /\ current' = [current EXCEPT ![side].is_pending = TRUE]
            /\ pc' = [pc EXCEPT ![side] = "cancel"]
            /\ UNCHANGED pnl
       ELSE /\ place_new_order_if_needed(side, cur)
            /\ UNCHANGED pnl
  /\ UNCHANGED <<bids, asks, ou_tasks, waiting, exch>>

\* check_current_*_order after the status poll, with add_trade called for a
\* CANCELED order as for a FILLED one.
status_returned_records_canceled(side) ==
  LET status == resp[side] cur == current[side] IN
  /\ pc[side] = "status"
  /\ status.due
  /\ resp' = [resp EXCEPT ![side] = NoResponse]
  /\ IF status.success /\ status.status \in {"FILLED", "CANCELED"}
       THEN /\ pnl' = add_trade(pnl, cur.order_id, side, cur.price, cur.quantity)
            /\ place_new_order_if_needed(side, None)
       ELSE IF status.success /\ should_cancel_current(side)
       THEN /\ current' = [current EXCEPT ![side].is_pending = TRUE]
            /\ pc' = [pc EXCEPT ![side] = "cancel"]
            /\ UNCHANGED pnl
       ELSE /\ place_new_order_if_needed(side, cur)
            /\ UNCHANGED pnl
  /\ UNCHANGED <<bids, asks, ou_tasks, waiting, exch>>

\* check_current_*_order after "status = await get_order_status(...)".
status_returned(side) ==
  LET status == resp[side] cur == current[side] IN
  /\ pc[side] = "status"
  /\ status.due
  /\ resp' = [resp EXCEPT ![side] = NoResponse]
  /\ IF status.success /\ status.status \in {"FILLED", "CANCELED"}
       THEN /\ pnl' = IF status.status = "FILLED"
                        THEN add_trade(pnl, cur.order_id, side, cur.price, cur.quantity)
                        ELSE pnl
            /\ place_new_order_if_needed(side, None)
       ELSE IF status.success /\ should_cancel_current(side)
       THEN /\ current' = [current EXCEPT ![side].is_pending = TRUE]
            /\ pc' = [pc EXCEPT ![side] = "cancel"]
            /\ UNCHANGED pnl
       ELSE /\ place_new_order_if_needed(side, cur)
            /\ UNCHANGED pnl
  /\ UNCHANGED <<bids, asks, ou_tasks, waiting, exch>>

\* check_current_*_order after the cancel call, without the "else" that
\* resets is_pending when the cancel failed.
cancel_returned_no_reset(side) ==
  LET cancel_resp == resp[side] cur == current[side] IN
  /\ pc[side] = "cancel"
  /\ cancel_resp.due
  /\ resp' = [resp EXCEPT ![side] = NoResponse]
  /\ IF cancel_resp.success
       THEN place_new_order_if_needed(side, None)
       ELSE place_new_order_if_needed(side, cur)
  /\ UNCHANGED <<bids, asks, ou_tasks, waiting, exch, pnl>>

\* check_current_*_order after the cancel call, with the order given up
\* whatever the cancel's outcome.
cancel_returned_always_clears(side) ==
  /\ pc[side] = "cancel"
  /\ resp[side].due
  /\ resp' = [resp EXCEPT ![side] = NoResponse]
  /\ place_new_order_if_needed(side, None)
  /\ UNCHANGED <<bids, asks, ou_tasks, waiting, exch, pnl>>

\* check_current_*_order after "cancel_resp = await cancel_order(...)".
cancel_returned(side) ==
  LET cancel_resp == resp[side] cur == current[side] IN
  /\ pc[side] = "cancel"
  /\ cancel_resp.due
  /\ resp' = [resp EXCEPT ![side] = NoResponse]
  /\ IF cancel_resp.success
       THEN place_new_order_if_needed(side, None)
       ELSE place_new_order_if_needed(side, [cur EXCEPT !.is_pending = FALSE])
  /\ UNCHANGED <<bids, asks, ou_tasks, waiting, exch, pnl>>

\* place_new_*_order_if_needed after the place call, without "self.current_*
\* = None" on failure: the placeholder stays.
place_returned_keeps_placeholder(side) ==
  /\ pc[side] = "place"
  /\ resp[side].due
  /\ resp' = [resp EXCEPT ![side] = NoResponse]
  /\ current' = [current EXCEPT ![side] =
        IF resp[side].success
          THEN [@ EXCEPT !.order_id = resp[side].order_id, !.is_pending = FALSE]
          ELSE @]
  /\ pc' = [pc EXCEPT ![side] = "idle"]
  /\ UNCHANGED <<bids, asks, ou_tasks, waiting, exch, pnl>>

\* place_new_*_order_if_needed after the place call, leaving on a failure
\* without handle_buy / handle_sell releasing the lock.
place_returned_lock_kept(side) ==
  /\ pc[side] = "place"
  /\ resp[side].due
  /\ resp' = [resp EXCEPT ![side] = NoResponse]
  /\ current' = [current EXCEPT ![side] =
        IF resp[side].success
          THEN [@ EXCEPT !.order_id = resp[side].order_id, !.is_pending = FALSE]
          ELSE None]
  /\ pc' = [pc EXCEPT ![side] = IF resp[side].success THEN "idle" ELSE "place"]
  /\ UNCHANGED <<bids, asks, ou_tasks, waiting, exch, pnl>>

\* place_new_*_order_if_needed after "resp = await place_*_limit_order(...)";
\* the lock is released.
place_returned(side) ==
  /\ pc[side] = "place"
  /\ resp[side].due
  /\ resp' = [resp EXCEPT ![side] = NoResponse]
  /\ current' = [current EXCEPT ![side] =
        IF resp[side].success
          THEN [@ EXCEPT !.order_id = resp[side].order_id, !.is_pending = FALSE]
          ELSE None]
  /\ pc' = [pc EXCEPT ![side] = "idle"]
  /\ UNCHANGED <<bids, asks, ou_tasks, waiting, exch, pnl>>

\* MarketMaker.on_orderbook_update, one created task run: handle_buy and
\* handle_sell tasks are created unless a side of the book is empty.
on_orderbook_update ==
  /\ ou_tasks > 0
  /\ ou_tasks' = ou_tasks - 1
  /\ IF get_best_bid(bids) = 0 \/ get_best_ask(asks) = 0
       THEN UNCHANGED waiting
       ELSE /\ \A side \in Sides : waiting[side] < MaxTasks
            /\ waiting' = [side \in Sides |-> waiting[side] + 1]
  /\ UNCHANGED <<bids, asks, current, pc, resp, exch, pnl>>

\* main.py orderbook_update_handler with the task it creates.
book_update(update) ==
  /\ ou_tasks < MaxTasks
  /\ orderbook_update_handler(update)
  /\ ou_tasks' = ou_tasks + 1
  /\ UNCHANGED <<current, waiting, pc, resp, exch, pnl>>

\* ------------------------------------------------ exchange (OrderExecutor)
\* OrderExecutor._send_request: the request reaches the exchange and the
\* OrderResponse is on its way back, or the call fails (success = False).
request_failed(side) ==
  /\ pc[side] # "idle"
  /\ ~resp[side].due
  /\ resp' = [resp EXCEPT ![side] = OrderResponse(FALSE, 0, "")]
  /\ UNCHANGED <<bids, asks, ou_tasks, current, waiting, pc, exch, pnl>>

\* GET /order: the order's status.
get_order_status(side) ==
  /\ pc[side] = "status"
  /\ ~resp[side].due
  /\ resp' = [resp EXCEPT ![side] =
        OrderResponse(TRUE, current[side].order_id, exch[current[side].order_id].status)]
  /\ UNCHANGED <<bids, asks, ou_tasks, current, waiting, pc, exch, pnl>>

\* DELETE /order: an open order is cancelled; for any other the exchange
\* answers with an error.
cancel_order(side) ==
  LET order_id == current[side].order_id IN
  /\ pc[side] = "cancel"
  /\ ~resp[side].due
  /\ IF exch[order_id].status = "NEW"
       THEN /\ exch' = [exch EXCEPT ![order_id].status = "CANCELED"]
            /\ resp' = [resp EXCEPT ![side] = OrderResponse(TRUE, order_id, "CANCELED")]
       ELSE /\ UNCHANGED exch
            /\ resp' = [resp EXCEPT ![side] = OrderResponse(FALSE, 0, "")]
  /\ UNCHANGED <<bids, asks, ou_tasks, current, waiting, pc, pnl>>

\* POST /order: the order is accepted and given the next order id, for as
\* long as the exchange holds fewer than max_orders orders.
place_order(side, max_orders) ==
  /\ pc[side] = "place"
  /\ ~resp[side].due
  /\ Len(exch) < max_orders
  /\ exch' = Append(exch, [side |-> side, status |-> "NEW"])
  /\ resp' = [resp EXCEPT ![side] = OrderResponse(TRUE, Len(exch) + 1, "NEW")]
  /\ UNCHANGED <<bids, asks, ou_tasks, current, waiting, pc, pnl>>

place_limit_order(side) == place_order(side, MaxOrders)

\* The market fills an open order, or the order is cancelled at the exchange
\* from outside the program.
order_closed(order_id, status) ==
  /\ exch[order_id].status = "NEW"
  /\ exch' = [exch EXCEPT ![order_id].status = status]
  /\ UNCHANGED <<bids, asks, ou_tasks, current, waiting, pc, resp, pnl>>

\* ------------------------------------------------------- FastMarketMaker
\* FastMarketMaker.__init__: quantities in units of the base currency,
\* spreads in basis points, the competition threshold in ticks.
base_quantity == 50
min_spread_bps == 10
target_spread_bps == 20
max_position == 500
spread_competition_threshold == 5

\* Optional[ActiveOrder]
NoActiveOrder ==
  [none |-> TRUE, order_id |-> 0, side |-> "", price |-> 0, quantity |-> 0]

ActiveOrder(order_id, side, price, quantity) ==
  [none |-> FALSE, order_id |-> order_id, side |-> side, price |-> price,
   quantity |-> quantity]

\* int(base_quantity * random.uniform(0.9, 1.3)): its least and its largest
\* value.
Quantities == {(base_quantity * 9) \div 10, (base_quantity * 13 - 1) \div 10}

\* The ticks the final randomization adds to the buy and to the sell price:
\* none, or random.choice([-1, 0, 1]) drawing -1 for the buy and 1 for the
\* sell price.
Jitters == {<<0, 0>>, <<-1, 1>>}

Abs(x) == IF x < 0 THEN -x ELSE x

\* round(n / d) as Python rounds: to the nearest integer, a half to the even
\* one.
RoundHalfEven(n, d) ==
  LET q == n \div d
      r == n % d
  IN IF 2 * r < d THEN q
     ELSE IF 2 * r > d THEN q + 1
     ELSE IF q % 2 = 0 THEN q ELSE q + 1

\* calculate_optimal_prices, prices in ticks: competition_detected as
\* on_orderbook_update has just set it, skip_tick the draw "random.random()
\* < 0.3", jitter the randomization added at the end.
calculate_optimal_prices(best_bid, best_ask, competition_detected, position, skip_tick, jitter) ==
  LET base ==
        IF competition_detected
          THEN IF skip_tick
                 THEN <<best_bid, best_ask>>
                 ELSE <<best_bid + tick_size, best_ask - tick_size>>
          ELSE LET buy_price ==
                     RoundHalfEven((best_bid + best_ask) * (20000 - target_spread_bps),
                                   40000)
                   sell_price ==
                     RoundHalfEven((best_bid + best_ask) * (20000 + target_spread_bps),
                                   40000)
               IN <<Min(buy_price, best_ask - tick_size),
                    IF sell_price >= best_bid + tick_size
                      THEN sell_price ELSE best_bid + tick_size>>
      skewed ==
        IF 2 * position > max_position
          THEN <<base[1] - 2 * tick_size, base[2] - tick_size>>
        ELSE IF 2 * position < -max_position
          THEN <<base[1] + tick_size, base[2] + 2 * tick_size>>
        ELSE base
  IN <<skewed[1] + tick_size * jitter[1], skewed[2] + tick_size * jitter[2]>>

\* An update_buy_order / update_sell_order task: pc is "start" (created, not
\* yet run), "cancel" or "cancel_only" (awaiting cancel_order for order_id,
\* with or without a placement to follow) or "place" (awaiting the place
\* call).
UpdateTask(side, target_price, pc_, order_id) ==
  [side |-> side, target_price |-> target_price, pc |-> pc_, order_id |-> order_id]

TasksOf(side) == {t \in BagToSet(upd) : t.side = side}

RECURSIVE CopiesSum(_, _)
CopiesSum(B, S) ==
  IF S = {} THEN 0
  ELSE LET t == CHOOSE x \in S : TRUE IN CopiesIn(t, B) + CopiesSum(B, S \ {t})

\* The number of update tasks of the side alive.
alive(side) == CopiesSum(upd, TasksOf(side))

replace_task(t, successors) == (upd (-) SetToBag({t})) (+) successors

mmLocal == <<ou_tasks, current, waiting, pc, resp, pnl>>

\* run_fast_mm.py orderbook_update_handler with the on_orderbook_update it
\* awaits: limited is the rate limit's verdict (the clock is not modelled).
fast_on_orderbook_update(update, limited, skip_tick, jitter) ==
  /\ orderbook_update_handler(update)
  /\ LET best_bid == get_best_bid(bids')
         best_ask == get_best_ask(asks')
         spread == best_ask - best_bid
         competition_detected == spread < tick_size * spread_competition_threshold
         prices == calculate_optimal_prices(best_bid, best_ask, competition_detected,
                                            fast.position, skip_tick, jitter)
     IN IF \/ limited
           \/ best_bid = 0 \/ best_ask = 0
           \/ spread * 10000 < min_spread_bps * best_bid
          THEN UNCHANGED upd
          ELSE /\ \A side \in Sides : alive(side) < MaxFastTasks
               /\ upd' = upd (+) SetToBag({UpdateTask("BUY", prices[1], "start", 0)})
                             (+) SetToBag({UpdateTask("SELL", prices[2], "start", 0)})
  /\ UNCHANGED <<fast_order, fast, fills, exch, mmLocal>>

\* update_buy_order / update_sell_order up to its first await, or to its
\* return.
update_order(t) ==
  LET order == fast_order[t.side]
      at_limit == IF t.side = "BUY" THEN fast.position >= max_position
                                    ELSE fast.position <= -max_position
  IN /\ t.pc = "start"
     /\ BagIn(t, upd)
     /\ upd' = replace_task(t,
          IF at_limit
            THEN IF order.none THEN EmptyBag
                 ELSE SetToBag({[t EXCEPT !.pc = "cancel_only",
                                          !.order_id = order.order_id]})
          ELSE IF ~order.none /\ Abs(order.price - t.target_price) < tick_size * 2
            THEN EmptyBag
          ELSE IF ~order.none
            THEN SetToBag({[t EXCEPT !.pc = "cancel", !.order_id = order.order_id]})
          ELSE SetToBag({[t EXCEPT !.pc = "place"]}))
     /\ UNCHANGED <<bids, asks, fast_order, fast, fills, exch, mmLocal>>

\* FastMarketMaker.cancel_order from the gateway's answer on: the exchange
\* has cancelled the order (cancelled), or has refused or the request failed;
\* the side's order is cleared whatever the answer, and the caller goes on to
\* place or returns.
fast_cancel_returned(t, cancelled) ==
  /\ t.pc \in {"cancel", "cancel_only"}
  /\ BagIn(t, upd)
  /\ IF cancelled
       THEN /\ exch[t.order_id].status = "NEW"
            /\ exch' = [exch EXCEPT ![t.order_id].status = "CANCELED"]
       ELSE UNCHANGED exch
  /\ fast_order' = [fast_order EXCEPT ![t.side] = NoActiveOrder]
  /\ upd' = replace_task(t,
       IF t.pc = "cancel" THEN SetToBag({[t EXCEPT !.pc = "place", !.order_id = 0]})
                          ELSE EmptyBag)
  /\ UNCHANGED <<bids, asks, fast, fills, mmLocal>>

\* update_buy_order / update_sell_order from the place call's answer on: the
\* exchange has accepted the order (accepted) and it becomes the side's
\* order, or the call failed and nothing is stored.
fast_place_returned(t, accepted, quantity) ==
  /\ t.pc = "place"
  /\ BagIn(t, upd)
  /\ IF accepted
       THEN /\ Len(exch) < MaxFastOrders
            /\ exch' = Append(exch, [side |-> t.side, status |-> "NEW"])
            /\ fast_order' = [fast_order EXCEPT ![t.side] =
                 ActiveOrder(Len(exch) + 1, t.side, t.target_price, quantity)]
       ELSE UNCHANGED <<exch, fast_order>>
  /\ upd' = replace_task(t, EmptyBag)
  /\ UNCHANGED <<bids, asks, fast, fills, mmLocal>>

\* check_fills_periodically: fills.pc is "sleep", "BUY" or "SELL" (awaiting
\* the status of order_id for that side) or "crashed" (ended by an exception).
Fills(pc_, order_id) == [pc |-> pc_, order_id |-> order_id]

\* The sell half of the loop body up to its await, or back to sleep.
check_sell ==
  IF fast_order'["SELL"].none
    THEN fills' = Fills("sleep", 0)
    ELSE fills' = Fills("SELL", fast_order'["SELL"].order_id)

\* check_fills_periodically waking from its sleep.
check_fills_wake ==
  /\ fills.pc = "sleep"
  /\ \E side \in Sides : ~fast_order[side].none
  /\ UNCHANGED fast_order
  /\ IF fast_order["BUY"].none
       THEN check_sell
       ELSE fills' = Fills("BUY", fast_order["BUY"].order_id)
  /\ UNCHANGED <<bids, asks, fast, upd, exch, mmLocal>>

\* check_fills_periodically from the status poll's answer on; answered is
\* whether the poll succeeded.  A FILLED answer reads self.buy_order /
\* self.sell_order as it is now; if it is None the attribute access raises
\* and the task ends.  total_volume and realized_pnl, which nothing reads,
\* are not carried.
check_fills_returned(answered) ==
  LET side == fills.pc
      order == fast_order[side]
      status == IF answered THEN exch[fills.order_id].status ELSE ""
  IN /\ fills.pc \in Sides
     /\ IF status = "FILLED" /\ order.none
          THEN /\ fills' = Fills("crashed", 0)
               /\ UNCHANGED <<fast_order, fast>>
          ELSE /\ fast_order' = [fast_order EXCEPT ![side] =
                    IF status \in {"FILLED", "CANCELED"} THEN NoActiveOrder ELSE @]
               /\ fast' =
                    IF status # "FILLED" THEN fast
                    ELSE IF side = "BUY"
                      THEN [fast EXCEPT !.position = @ + order.quantity]
                      ELSE [fast EXCEPT !.position = @ - order.quantity]
               /\ IF side = "BUY" THEN check_sell ELSE fills' = Fills("sleep", 0)
     /\ UNCHANGED <<bids, asks, upd, exch, mmLocal>>

InitFastState ==
  /\ fast_order = [side \in Sides |-> NoActiveOrder]
  /\ fast = [position |-> 0]
  /\ upd = EmptyBag
  /\ fills = Fills("sleep", 0)

\* ------------------------------------------------------------ SpecFeed
\* The WebSocketClient under any sequence of messages, snapshots and
\* reconnects.
feedVars == <<current_version, needs_resync, ev, arg, baseline>>
mmVars == <<ou_tasks, current, waiting, pc, resp, exch, pnl>>
fastVars == <<fast_order, fast, upd, fills>>
vars == <<bids, asks, feedVars, mmVars, fastVars>>

InitMMState ==
  /\ ou_tasks = 0
  /\ current = [side \in Sides |-> None]
  /\ waiting = [side \in Sides |-> 0]
  /\ pc = [side \in Sides |-> "idle"]
  /\ resp = [side \in Sides |-> NoResponse]
  /\ exch = <<>>
  /\ pnl = InitPnL

InitFeed ==
  /\ bids = EmptySide
  /\ asks = EmptySide
  /\ current_version = 0
  /\ needs_resync = FALSE
  /\ ev = Event("init", "none", Valid, FALSE)
  /\ arg = NoArg
  /\ baseline = "none"
  /\ InitMMState
  /\ InitFastState

Receive ==
  /\ \E message \in Messages : handle_received_data(message)
  /\ UNCHANGED <<arg, baseline, mmVars, fastVars>>

Resync ==
  /\ \E snapshot_json \in Snapshots : get_order_book_snapshot(snapshot_json)
  /\ UNCHANGED <<arg, baseline, mmVars, fastVars>>

Reconnect ==
  /\ reconnect
  /\ UNCHANGED <<arg, baseline, mmVars, fastVars>>

NextFeed == Receive \/ Resync \/ Reconnect

SpecFeed == InitFeed /\ [][NextFeed]_vars

\* ------------------------------------------------------------ SpecLoop
\* WebSocketClient.run_loop as main.py runs it after connect and
\* send_subscription: messages are received and handled, the connection
\* drops and is re-established, the snapshot is fetched when an iteration
\* starts with needs_resync set.  baseline records the snapshot the book
\* rests on: "none" until a snapshot has been applied, "fresh" once one has
\* been, "stale" when the connection has been re-established since.
LoopReceive ==
  /\ run_loop_pc = "recv"
  /\ \E message \in Messages : handle_received_data(message)
  /\ UNCHANGED <<arg, baseline, mmVars, fastVars>>

LoopReconnect ==
  /\ run_loop_pc = "recv"
  /\ reconnect
  /\ baseline' = IF baseline = "none" THEN "none" ELSE "stale"
  /\ UNCHANGED <<arg, mmVars, fastVars>>

LoopResync ==
  /\ run_loop_pc = "resync"
  /\ \E snapshot_json \in Snapshots : get_order_book_snapshot(snapshot_json)
  /\ baseline' = "fresh"
  /\ UNCHANGED <<arg, mmVars, fastVars>>

LoopResyncFailed ==
  /\ run_loop_pc = "resync"
  /\ snapshot_failed
  /\ UNCHANGED <<arg, baseline, mmVars, fastVars>>

NextLoop == LoopReceive \/ LoopReconnect \/ LoopResync \/ LoopResyncFailed

SpecLoop == InitFeed /\ [][NextLoop]_vars

\* ------------------------------------------------------------ SpecBook
\* The OrderBook under any sequence of update_bid, update_ask and clear
\* calls; ev.op names the last call, arg its price and quantity.
\* The quantities a call is given: below zero, zero, one lot.
CallQtys == {-order_quantity, 0, order_quantity}

CallPrices == 1..MaxBookPrice

Call(price, quantity) == [price |-> price, quantity |-> quantity]

BookUpdateBid ==
  /\ \E price \in CallPrices, quantity \in CallQtys :
       /\ bids' = update_bid(bids, price, quantity)
       /\ arg' = Call(price, quantity)
  /\ ev' = Event("update_bid", "none", Valid, FALSE)
  /\ UNCHANGED <<asks, current_version, needs_resync, baseline, mmVars, fastVars>>

BookUpdateAsk ==
  /\ \E price \in CallPrices, quantity \in CallQtys :
       /\ asks' = update_ask(asks, price, quantity)
       /\ arg' = Call(price, quantity)
  /\ ev' = Event("update_ask", "none", Valid, FALSE)
  /\ UNCHANGED <<bids, current_version, needs_resync, baseline, mmVars, fastVars>>

BookClear ==
  /\ clear
  /\ ev' = Event("clear", "none", Valid, FALSE)
  /\ arg' = NoArg
  /\ UNCHANGED <<current_version, needs_resync, baseline, mmVars, fastVars>>

NextBook == BookUpdateBid \/ BookUpdateAsk \/ BookClear

SpecBook == InitFeed /\ [][NextBook]_vars

\* -------------------------------------------------------------- SpecOp
\* One WebSocketClient operation applied to any state the client can be in,
\* with the operation's argument kept in arg.
BookSides == UNION {[S -> FeedQtys \ {0}] : S \in SUBSET Prices}

InitOp ==
  /\ bids \in BookSides
  /\ asks \in BookSides
  /\ current_version \in Versions
  /\ needs_resync \in BOOLEAN
  /\ ev = Event("init", "none", Valid, FALSE)
  /\ arg = NoArg
  /\ baseline = "none"
  /\ InitMMState
  /\ InitFastState

ReceiveOnce ==
  /\ ev.op = "init"
  /\ \E message \in Messages :
       /\ handle_received_data(message)
       /\ arg' = [message |-> message, snapshot |-> NoSnapshot]
  /\ UNCHANGED <<baseline, mmVars, fastVars>>

ResyncOnce ==
  /\ ev.op = "init"
  /\ \E snapshot_json \in Snapshots :
       /\ get_order_book_snapshot(snapshot_json)
       /\ arg' = [message |-> NoArg.message, snapshot |-> snapshot_json]
  /\ UNCHANGED <<baseline, mmVars, fastVars>>

NextOp == ReceiveOnce \/ ResyncOnce

SpecOp == InitOp /\ [][NextOp]_vars

\* -------------------------------------------------------------- SpecMM
\* The MarketMaker of main.py: book updates create on_orderbook_update
\* tasks, these create handle_buy / handle_sell tasks, which run under the
\* side's lock against the exchange.
InitMM ==
  /\ bids = EmptySide
  /\ asks = EmptySide
  /\ current_version = 0
  /\ needs_resync = FALSE
  /\ ev = Event("init", "none", Valid, FALSE)
  /\ arg = NoArg
  /\ baseline = "none"
  /\ InitMMState
  /\ InitFastState

\* The depth updates that drive the MarketMaker: per side nothing, or the
\* level one tick above zero set or removed.
TouchLists == {<<>>} \cup {<<<<tick_size, quantity>>>> : quantity \in FeedQtys}

BookUpdate ==
  /\ \E update \in [bids : TouchLists, asks : TouchLists] : book_update(update)
  /\ UNCHANGED <<feedVars, fastVars>>

OnOrderbookUpdate == on_orderbook_update /\ UNCHANGED <<feedVars, fastVars>>

Handle == \E side \in Sides : handle(side) /\ UNCHANGED <<feedVars, fastVars>>

StatusReturned == \E side \in Sides : status_returned(side) /\ UNCHANGED <<feedVars, fastVars>>

CancelReturned == \E side \in Sides : cancel_returned(side) /\ UNCHANGED <<feedVars, fastVars>>

PlaceReturned == \E side \in Sides : place_returned(side) /\ UNCHANGED <<feedVars, fastVars>>

RequestFailed == \E side \in Sides : request_failed(side) /\ UNCHANGED <<feedVars, fastVars>>

GetOrderStatus == \E side \in Sides : get_order_status(side) /\ UNCHANGED <<feedVars, fastVars>>

CancelOrder == \E side \in Sides : cancel_order(side) /\ UNCHANGED <<feedVars, fastVars>>

PlaceLimitOrder == \E side \in Sides : place_limit_order(side) /\ UNCHANGED <<feedVars, fastVars>>

OrderClosed ==
  /\ \E order_id \in 1..Len(exch), status \in {"FILLED", "CANCELED"} :
       order_closed(order_id, status)
  /\ UNCHANGED <<feedVars, fastVars>>

NextMM ==
  \/ BookUpdate
  \/ OnOrderbookUpdate
  \/ Handle
  \/ StatusReturned
  \/ CancelReturned
  \/ PlaceReturned
  \/ RequestFailed
  \/ GetOrderStatus
  \/ CancelOrder
  \/ PlaceLimitOrder
  \/ OrderClosed

SpecMM == InitMM /\ [][NextMM]_vars

\* SpecMM with the event loop's scheduling: a handle task that can take the
\* side's lock is run, and so is a lock holder whose place call has returned.
FairSpecMM ==
  /\ SpecMM
  /\ \A side \in Sides :
       WF_vars((handle(side) \/ place_returned(side)) /\ UNCHANGED <<feedVars, fastVars>>)

\* SpecMM with every task scheduled and every call answered: a handle task
\* that can take its lock runs, a lock holder whose call has returned goes
\* on, every gateway call gets its answer or fails, and a status poll made
\* again and again is answered by the exchange in the end.
FairSpecFill ==
  /\ SpecMM
  /\ \A side \in Sides :
       /\ WF_vars((handle(side) \/ status_returned(side) \/ cancel_returned(side)
                     \/ place_returned(side)) /\ UNCHANGED <<feedVars, fastVars>>)
       /\ WF_vars((cancel_order(side) \/ place_limit_order(side) \/ request_failed(side))
                     /\ UNCHANGED <<feedVars, fastVars>>)
       /\ SF_vars(get_order_status(side) /\ UNCHANGED <<feedVars, fastVars>>)

\* SpecMM with the event loop's scheduling and every gateway call returning:
\* a handle task that can take its lock runs, a lock holder whose call has
\* returned goes on, and every call in flight gets an answer or fails.
FairSpecCalls ==
  /\ SpecMM
  /\ \A side \in Sides :
       /\ WF_vars((handle(side) \/ status_returned(side) \/ cancel_returned(side)
                     \/ place_returned(side)) /\ UNCHANGED <<feedVars, fastVars>>)
       /\ WF_vars((get_order_status(side) \/ cancel_order(side) \/ place_limit_order(side)
                     \/ request_failed(side)) /\ UNCHANGED <<feedVars, fastVars>>)

\* ----------------------------------------------------------- SpecCycle
\* One handle_buy or handle_sell task, from its creation to its end, for a
\* side that holds an Active order, over any book: the side's order rests at
\* any price, the other side holds none.
BookPrices == 1..MaxBookPrice

\* A level holds one order's quantity or two.
BookQtys == {order_quantity, 2 * order_quantity}

RichSides == UNION {[S -> BookQtys] : S \in SUBSET BookPrices}

InitCycle ==
  /\ bids \in RichSides
  /\ asks \in RichSides
  /\ current_version = 0
  /\ needs_resync = FALSE
  /\ ev = Event("init", "none", Valid, FALSE)
  /\ arg = NoArg
  /\ baseline = "none"
  /\ ou_tasks = 0
  /\ \E side \in Sides, price \in BookPrices :
       /\ current = [s \in Sides |->
            IF s = side THEN PendingOrder(1, side, price, order_quantity, FALSE)
                        ELSE None]
       /\ waiting = [s \in Sides |-> IF s = side THEN 1 ELSE 0]
       /\ exch = <<[side |-> side, status |-> "NEW"]>>
  /\ pc = [side \in Sides |-> "idle"]
  /\ resp = [side \in Sides |-> NoResponse]
  /\ pnl = InitPnL
  /\ InitFastState

CyclePlaceLimitOrder ==
  \E side \in Sides : place_order(side, MaxCycleOrders) /\ UNCHANGED <<feedVars, fastVars>>

NextCycle ==
  \/ Handle
  \/ StatusReturned
  \/ CancelReturned
  \/ PlaceReturned
  \/ RequestFailed
  \/ GetOrderStatus
  \/ CancelOrder
  \/ CyclePlaceLimitOrder
  \/ OrderClosed

SpecCycle == InitCycle /\ [][NextCycle]_vars

\* ------------------------------------------------------------- SpecPnL
\* The PnLTracker under any sequence of add_trade calls.
AddTrade ==
  /\ Len(pnl.trades) < MaxTrades
  /\ \E side \in Sides, price \in 1..MaxTradePrice, quantity \in 1..MaxTradeQty :
       pnl' = add_trade(pnl, Len(pnl.trades) + 1, side, price, quantity)
  /\ UNCHANGED <<bids, asks, feedVars, ou_tasks, current, waiting, pc, resp, exch, fastVars>>

NextPnL == AddTrade

SpecPnL == InitMM /\ [][NextPnL]_vars

\* ---------------------------------------------------------- SpecPrices
\* calculate_optimal_prices called once, as on_orderbook_update calls it, on
\* any best bid below the best ask, a position inside, above or below the
\* skew thresholds, and every outcome of its random draws.  arg holds the
\* inputs and, after the call, the prices returned.
\* The ticks the final randomization adds: random.choice([-1, 0, 1]) for each
\* price, or nothing.
AllJitters == {-1, 0, 1} \X {-1, 0, 1}

Quotes == 1..MaxQuote

SkewPositions == {-(max_position \div 2) - 1, 0, (max_position \div 2) + 1}

PriceCall(best_bid, best_ask, position, buy_price, sell_price) ==
  [best_bid |-> best_bid, best_ask |-> best_ask, position |-> position,
   buy_price |-> buy_price, sell_price |-> sell_price]

InitPrices ==
  /\ bids = EmptySide
  /\ asks = EmptySide
  /\ current_version = 0
  /\ needs_resync = FALSE
  /\ ev = Event("init", "none", Valid, FALSE)
  /\ \E best_bid \in Quotes, best_ask \in Quotes, position \in SkewPositions :
       /\ best_bid < best_ask
       /\ arg = PriceCall(best_bid, best_ask, position, 0, 0)
  /\ baseline = "none"
  /\ InitMMState
  /\ InitFastState

\* on_orderbook_update from its spread test to the prices it computes.
CalculateOptimalPrices ==
  /\ ev.op = "init"
  /\ LET spread == arg.best_ask - arg.best_bid
         competition_detected == spread < tick_size * spread_competition_threshold
     IN /\ spread * 10000 >= min_spread_bps * arg.best_bid
        /\ \E skip_tick \in BOOLEAN, jitter \in AllJitters :
             LET prices == calculate_optimal_prices(arg.best_bid, arg.best_ask,
                             competition_detected, arg.position, skip_tick, jitter)
             IN arg' = [arg EXCEPT !.buy_price = prices[1], !.sell_price = prices[2]]
  /\ ev' = Event("prices", "none", Valid, FALSE)
  /\ UNCHANGED <<bids, asks, current_version, needs_resync, baseline, mmVars, fastVars>>

NextPrices == CalculateOptimalPrices

SpecPrices == InitPrices /\ [][NextPrices]_vars

\* ------------------------------------------------------------ SpecFast
\* The FastMarketMaker of run_fast_mm.py: book updates create update tasks,
\* which run without any lock next to check_fills_periodically.
InitFast ==
  /\ bids = EmptySide
  /\ asks = EmptySide
  /\ current_version = 0
  /\ needs_resync = FALSE
  /\ ev = Event("init", "none", Valid, FALSE)
  /\ arg = NoArg
  /\ baseline = "none"
  /\ InitMMState
  /\ InitFastState

\* The depth updates that drive the FastMarketMaker: per side nothing, or
\* the bid level at one tick, the ask level at two ticks, set or removed.
FastUpdates ==
  [bids : {<<>>} \cup {<<<<tick_size, quantity>>>> : quantity \in FeedQtys},
   asks : {<<>>} \cup {<<<<2 * tick_size, quantity>>>> : quantity \in FeedQtys}]

FastOnOrderbookUpdate ==
  /\ \E update \in FastUpdates :
       \/ fast_on_orderbook_update(update, TRUE, FALSE, <<0, 0>>)
       \/ \E skip_tick \in BOOLEAN, jitter \in Jitters :
            fast_on_orderbook_update(update, FALSE, skip_tick, jitter)
  /\ UNCHANGED feedVars

UpdateOrder ==
  /\ \E t \in BagToSet(upd) : update_order(t)
  /\ UNCHANGED feedVars

FastCancelReturned ==
  /\ \E t \in BagToSet(upd), cancelled \in BOOLEAN : fast_cancel_returned(t, cancelled)
  /\ UNCHANGED feedVars

FastPlaceReturned ==
  /\ \E t \in BagToSet(upd), accepted \in BOOLEAN, quantity \in Quantities :
       fast_place_returned(t, accepted, quantity)
  /\ UNCHANGED feedVars

CheckFillsWake == check_fills_wake /\ UNCHANGED feedVars

CheckFillsReturned ==
  /\ \E answered \in BOOLEAN : check_fills_returned(answered)
  /\ UNCHANGED feedVars

NextFast ==
  \/ FastOnOrderbookUpdate
  \/ UpdateOrder
  \/ FastCancelReturned
  \/ FastPlaceReturned
  \/ CheckFillsWake
  \/ CheckFillsReturned
  \/ OrderClosed

SpecFast == InitFast /\ [][NextFast]_vars

\* ------------------------------------------------------------ claims
Range(s) == {s[i] : i \in 1..Len(s)}

\* The non-zero levels of a level list, as a price -> quantity map.
NonZeroLevels(levels) ==
  [p \in {l[1] : l \in {m \in Range(levels) : m[2] # 0}} |->
     (CHOOSE l \in Range(levels) : l[1] = p)[2]]

\* C1: a delta classified Outdated is discarded with no state change: book,
\* currentVersion and needsResync are as before, and the update callback is
\* not invoked.
C1_OutdatedDiscarded ==
  [][(ev'.op = "delta" /\ ev'.status = Outdated)
       => /\ UNCHANGED <<bids, asks, current_version, needs_resync>>
          /\ ~ev'.called]_vars

\* C2: currentVersion never decreases except when a snapshot resets it, and
\* the only deltas applied to the book are those that start right after the
\* last applied version (none out of order or overlapping).
C2_VersionMonotone ==
  [][/\ (ev'.op # "snapshot" => current_version' >= current_version)
     /\ (ev'.called => ev'.status = Valid)]_vars

\* The classification as the specification tables it, one condition per
\* outcome.
ClassificationTable(V, fromVersion, toVersion) ==
  CASE toVersion < V -> Outdated
    [] toVersion >= V /\ fromVersion > V + 1 -> GapDetected
    [] toVersion >= V /\ fromVersion < V + 1 -> NotSequential
    [] toVersion >= V /\ fromVersion = V + 1 -> Valid

\* C3: for every currentVersion V and delta [fromVersion, toVersion] the
\* status is Outdated if toVersion < V, else GapDetected if fromVersion > V+1,
\* else NotSequential if fromVersion # V+1, else Valid; and a Valid delta
\* leaves currentVersion equal to toVersion.
C3_Classification ==
  [][ev'.op = "delta"
       => LET d == arg'.message.depth IN
          /\ ev'.status = ClassificationTable(current_version, d.fromVersion, d.toVersion)
          /\ (ev'.status = Valid => current_version' = d.toVersion)]_vars

C3_Witness ==
  /\ ev.op = "delta"
  /\ ev.status = Valid
  /\ arg.message.depth.toVersion > arg.message.depth.fromVersion
  /\ current_version = arg.message.depth.toVersion

\* C4: once needsResync is true, every later message - a delta that would
\* classify Valid included - leaves book and currentVersion unchanged and
\* needsResync true, until a snapshot is applied.
C4_ResyncSuppression ==
  [][(needs_resync /\ ev'.op # "snapshot")
       => /\ UNCHANGED <<bids, asks, current_version>>
          /\ needs_resync']_vars

C4_Witness ==
  /\ needs_resync
  /\ ev.op = "dropped"
  /\ ev.kind = "delta"
  /\ ev.status = Valid

\* C5: after a resync the book holds exactly the snapshot's non-zero bid and
\* ask levels, currentVersion is the snapshot's reported version id, and
\* needsResync is false.
C5_SnapshotReplaces ==
  [][ev'.op = "snapshot"
       => LET s == arg'.snapshot IN
          /\ bids' = NonZeroLevels(s.bids)
          /\ asks' = NonZeroLevels(s.asks)
          /\ (s.lastUpdateId # NoId => current_version' = s.lastUpdateId)
          /\ ~needs_resync']_vars

C5_Witness ==
  /\ ev.op = "snapshot"
  /\ arg.snapshot.lastUpdateId = 2
  /\ current_version = 2
  /\ DOMAIN bids # {}
  /\ ~needs_resync

\* The states of a side's PendingOrder.
Empty(o) == o.none
Submitting(o) == ~o.none /\ o.order_id = 0 /\ o.is_pending
Active(o) == ~o.none /\ o.order_id # 0 /\ ~o.is_pending
CancelPending(o) == ~o.none /\ o.order_id # 0 /\ o.is_pending

\* The response the side's lock holder is about to resume with.
Returning(side, call) == pc[side] = call /\ resp[side].due

\* The step in which the side's lock holder resumes from the call.
Returns(side, call) == Returning(side, call) /\ ~resp'[side].due

\* The step in which a place call for the side is issued.
PlaceIssued(side) == pc[side] # "place" /\ pc'[side] = "place"

\* The order the side holds has been reported closed to the lock holder: a
\* status poll says FILLED or CANCELED, or a cancel call succeeded.
ConfirmedClosed(side) ==
  \/ /\ Returning(side, "status")
     /\ resp[side].success
     /\ resp[side].status \in {"FILLED", "CANCELED"}
  \/ /\ Returning(side, "cancel")
     /\ resp[side].success

\* C6: for any interleaving of book-update triggers and gateway responses a
\* place call for a side is issued only when the side is Empty or its order
\* has just been confirmed closed, never while an earlier order of the side
\* is submitting, active or cancel-pending; the call's placeholder is then
\* the side's only order, and it is Submitting for as long as the call is in
\* flight.
C6_AtMostOnePerSide ==
  /\ [][\A side \in Sides :
          PlaceIssued(side)
            => /\ Empty(current[side]) \/ ConfirmedClosed(side)
               /\ Submitting(current'[side])]_vars
  /\ [](\A side \in Sides :
          /\ pc[side] = "place" <=> Submitting(current[side])
          /\ pc[side] = "cancel" <=> CancelPending(current[side])
          /\ pc[side] = "status" => Active(current[side]))

\* A replacement is being placed for a side whose earlier order was filled or
\* cancelled.
C6_Witness ==
  \E side \in Sides :
    /\ pc[side] = "place"
    /\ Submitting(current[side])
    /\ \E id \in 1..Len(exch) :
         exch[id].side = side /\ exch[id].status \in {"FILLED", "CANCELED"}

\* The orders of the side open at the exchange.
LiveOrders(side) ==
  {id \in 1..Len(exch) : exch[id].side = side /\ exch[id].status = "NEW"}

\* C7: for any interleaving of the update tasks and the fill checker at
\* most one order per side is live at the exchange (a replacement is placed
\* only once the side's previous order is cancelled or filled), and at most
\* one place call per side is in flight.
C7_AtMostOneLive ==
  \A side \in Sides :
    /\ Cardinality(LiveOrders(side)) <= 1
    /\ CopiesSum(upd, {t \in TasksOf(side) : t.pc = "place"}) <= 1

\* C8: when a status poll reports FILLED for the side's Active order, exactly
\* one Trade with that order's id, side, price and quantity is appended to
\* the ledger and the side no longer holds the order; trades are appended by
\* no other step, and no order id is recorded twice.
C8_FilledRecordedOnce ==
  /\ [][\A side \in Sides :
          LET filled == /\ Returns(side, "status")
                        /\ resp[side].success
                        /\ resp[side].status = "FILLED"
              o == current[side]
          IN /\ filled
                 => /\ Active(o)
                    /\ pnl'.trades =
                         Append(pnl.trades, Trade(o.order_id, side, o.price, o.quantity))
                    /\ current'[side].order_id # o.order_id
             /\ (Returns(side, "status") /\ ~filled) => pnl'.trades = pnl.trades]_vars
  /\ [][(\A side \in Sides : ~Returns(side, "status")) => pnl'.trades = pnl.trades]_vars
  /\ [](\A i, j \in 1..Len(pnl.trades) :
          pnl.trades[i].order_id = pnl.trades[j].order_id => i = j)

\* A filled order is in the ledger and its side holds it no more.
C8_Witness ==
  \E i \in 1..Len(pnl.trades) :
    LET t == pnl.trades[i] IN
    /\ exch[t.order_id].status = "FILLED"
    /\ exch[t.order_id].side = t.side
    /\ current[t.side].order_id # t.order_id

\* C9: a failed cancel call returns the side to Active with the same order
\* id and is_pending false, and whenever no handle task of the side holds the
\* lock the side's order is not flagged pending.
C9_CancelFailureReverts ==
  /\ [][\A side \in Sides :
          (Returns(side, "cancel") /\ ~resp[side].success)
            => /\ current'[side] = [current[side] EXCEPT !.is_pending = FALSE]
               /\ Active(current'[side])
               /\ pc'[side] = "idle"]_vars
  /\ [](\A side \in Sides : pc[side] = "idle" => ~current[side].is_pending)

\* A cancel call has failed and its response is about to be handled.
C9_Witness ==
  \E side \in Sides :
    /\ Returning(side, "cancel")
    /\ ~resp[side].success
    /\ CancelPending(current[side])

\* A failed place call is about to be handled.
FailedPlace(side) == Returning(side, "place") /\ ~resp[side].success

\* C10: a place call that returns success = false leaves the side Empty; an
\* on_orderbook_update run on a book with non-zero best bid and best ask
\* creates a handle task for each side; and with a handle task created, a
\* side whose place call failed or that is Empty gets a new place call.
C10_PlaceFailureRetried ==
  /\ [][\A side \in Sides :
          (Returns(side, "place") /\ ~resp[side].success)
            => Empty(current'[side]) /\ pc'[side] = "idle"]_vars
  /\ [][(ou_tasks' < ou_tasks /\ get_best_bid(bids) # 0 /\ get_best_ask(asks) # 0)
          => \A side \in Sides : waiting'[side] = waiting[side] + 1]_vars
  /\ \A side \in Sides :
       (/\ waiting[side] > 0
        /\ FailedPlace(side) \/ (Empty(current[side]) /\ pc[side] = "idle"))
         ~> (pc[side] = "place" /\ ~resp[side].due)

\* A place call has failed while the next handle task of the side is
\* already created.
C10_Witness ==
  \E side \in Sides :
    /\ FailedPlace(side)
    /\ waiting[side] > 0

\* The status poll of the side's Active order comes back: the order is open.
PollSaysOpen(side) ==
  /\ Returns(side, "status")
  /\ resp[side].success
  /\ resp[side].status \notin {"FILLED", "CANCELED"}

\* C11: when the poll of an Active buy order finds it open and the best bid
\* is no longer the order's price, a cancel for that order is issued and no
\* place call; a place call for a side that holds an order is issued only in
\* the step in which the order is confirmed closed, and none when the cancel
\* returns a failure; the cancel that succeeds is the cancel of that order.
C11_CancelOnDisplacement ==
  /\ [][(PollSaysOpen("BUY") /\ current["BUY"].price # get_best_bid(bids))
          => /\ pc'["BUY"] = "cancel"
             /\ current'["BUY"] = [current["BUY"] EXCEPT !.is_pending = TRUE]]_vars
  /\ [][(PlaceIssued("BUY") /\ ~Empty(current["BUY"])) => ConfirmedClosed("BUY")]_vars
  /\ [][(Returns("BUY", "cancel") /\ ~resp["BUY"].success) => pc'["BUY"] = "idle"]_vars
  /\ [][(pc["BUY"] = "cancel" /\ resp'["BUY"].due /\ resp'["BUY"].success)
          => /\ resp'["BUY"].order_id = current["BUY"].order_id
             /\ exch' = [exch EXCEPT ![current["BUY"].order_id].status = "CANCELED"]]_vars

\* The cancel of a displaced buy order is in flight: the order is alone at
\* its level and the best bid more than a tick above the next level.
C11_Witness ==
  LET o == current["BUY"] IN
  /\ pc["BUY"] = "cancel"
  /\ CancelPending(o)
  /\ o.price # get_best_bid(bids)
  /\ get_bid_quantity(bids, o.price) = o.quantity
  /\ get_best_bid(bids) - get_second_best_bid(bids) > tick_size

\* The test the cancel rule makes before it compares prices: the quantity the
\* bid side shows at the order's price is the order's own (the sell side's
\* rule reads the bid side too), and the side's best level is more than a
\* tick from its second-best.
SoleAtLevelFires(side) ==
  /\ get_bid_quantity(bids, current[side].price) = current[side].quantity
  /\ IF side = "BUY"
       THEN get_best_bid(bids) - get_second_best_bid(bids) > tick_size
       ELSE get_second_best_ask(asks) - get_best_ask(asks) > tick_size

C13_StartsNeedingResync ==
  /\ ev.op = "init" => (needs_resync /\ current_version = 0)
  /\ ev.called => baseline # "none"

\* C14: when the connection has dropped and been re-established,
\* needs_resync is set, and no delta received after it is applied before a
\* fresh snapshot has been.
C14_DisconnectForcesResync ==
  /\ ev.op = "reconnect" => needs_resync
  /\ ev.called => baseline # "stale"

\* C15: a snapshot fetch that fails leaves needs_resync set and the book
\* and current_version as they were, and the loop goes on to fetch the
\* snapshot again; run_loop is never ended by it.
C15_SnapshotFailureRetried ==
  /\ [][ev'.op = "failed"
          => /\ needs_resync'
             /\ UNCHANGED <<bids, asks, current_version>>
             /\ run_loop_pc' = "resync"]_vars
  /\ [](run_loop_pc # "stopped")

\* C16: after any sequence of update_bid, update_ask and clear calls no
\* price is stored on either side with a quantity of zero or less.
C16_NoNonPositiveQuantity ==
  /\ \A p \in DOMAIN bids : bids[p] > 0
  /\ \A p \in DOMAIN asks : asks[p] > 0

\* C17: an update with quantity 0 removes its price from its side and
\* leaves the other levels and the other side as they are; given again, when
\* the price is absent, it leaves the book unchanged; and get_bid_quantity /
\* get_ask_quantity are 0 for every price absent from the side.
C17_ZeroRemoves ==
  /\ [][(ev'.op = "update_bid" /\ arg'.quantity = 0)
          => /\ DOMAIN bids' = (DOMAIN bids) \ {arg'.price}
             /\ \A p \in DOMAIN bids' : bids'[p] = bids[p]
             /\ asks' = asks
             /\ arg'.price \notin DOMAIN bids => bids' = bids]_vars
  /\ [][(ev'.op = "update_ask" /\ arg'.quantity = 0)
          => /\ DOMAIN asks' = (DOMAIN asks) \ {arg'.price}
             /\ \A p \in DOMAIN asks' : asks'[p] = asks[p]
             /\ bids' = bids
             /\ arg'.price \notin DOMAIN asks => asks' = asks]_vars
  /\ [](\A p \in CallPrices :
          /\ p \notin DOMAIN bids => get_bid_quantity(bids, p) = 0
          /\ p \notin DOMAIN asks => get_ask_quantity(asks, p) = 0)

\* A zero-quantity update_bid has run: its price is absent and reads as 0,
\* another bid level is still there.
C17_Witness ==
  /\ ev.op = "update_bid"
  /\ arg.quantity = 0
  /\ arg.price \notin DOMAIN bids
  /\ get_bid_quantity(bids, arg.price) = 0
  /\ DOMAIN bids # {}

\* p is the n-th price of the set S counted from the top (down = TRUE) or
\* from the bottom.
IsNth(p, S, n, down) ==
  /\ p \in S
  /\ Cardinality({q \in S : IF down THEN q > p ELSE q < p}) = n - 1

\* C18: get_best_bid / get_best_ask are the highest bid / lowest ask price
\* and get_second_best_bid / get_second_best_ask the second highest / second
\* lowest; each is 0 when the side has fewer levels than that.
C18_BestLevels ==
  LET B == DOMAIN bids
      A == DOMAIN asks
  IN /\ IF B = {} THEN get_best_bid(bids) = 0
                  ELSE IsNth(get_best_bid(bids), B, 1, TRUE)
     /\ IF A = {} THEN get_best_ask(asks) = 0
                  ELSE IsNth(get_best_ask(asks), A, 1, FALSE)
     /\ IF Cardinality(B) < 2 THEN get_second_best_bid(bids) = 0
                              ELSE IsNth(get_second_best_bid(bids), B, 2, TRUE)
     /\ IF Cardinality(A) < 2 THEN get_second_best_ask(asks) = 0
                              ELSE IsNth(get_second_best_ask(asks), A, 2, FALSE)

\* Three bid levels and one ask level: the second-best bid is the middle
\* one, the second-best ask the sentinel.
C18_Witness ==
  /\ Cardinality(DOMAIN bids) = 3
  /\ Cardinality(DOMAIN asks) = 1
  /\ get_second_best_bid(bids) = 2
  /\ get_second_best_ask(asks) = 0
  /\ get_best_ask(asks) = 3

\* C19: after every add_trade realized_pnl is (avgSellPrice - avgBuyPrice)
\* * min(totalBuyQty, totalSellQty) - feesPaid, an average being 0 when its
\* quantity is 0: with only buys or only sells recorded it is -feesPaid.
\* Both sides are fractions, compared by cross-multiplication; fees are in
\* thousandths.
C19_RealizedPnL ==
  LET bq == pnl.total_buy_quantity
      sq == pnl.total_sell_quantity
      bd == IF bq = 0 THEN 1 ELSE bq
      sd == IF sq = 0 THEN 1 ELSE sq
      matched == IF bq <= sq THEN bq ELSE sq
      num == (pnl.total_sell_value * bd - pnl.total_buy_value * sd)
               * matched * FeeRateDenominator
             - pnl.fees_paid * sd * bd
      den == sd * bd * FeeRateDenominator
  IN pnl.trades # <<>> => pnl.realized_pnl[1] * den = num * pnl.realized_pnl[2]

\* The sum of the trades' quantities, a SELL counted negative.
RECURSIVE SignedSum(_)
SignedSum(trades) ==
  IF trades = <<>> THEN 0
  ELSE (IF Head(trades).side = "BUY" THEN Head(trades).quantity
                                     ELSE -Head(trades).quantity)
       + SignedSum(Tail(trades))

C21_NeverCrosses ==
  ev.op = "prices"
    => /\ arg.buy_price <= arg.best_ask - tick_size
       /\ arg.sell_price >= arg.best_bid + tick_size

\* C22: a delta that classifies GapDetected or NotSequential against the
\* current version leaves needsResync true and is discarded: none of its
\* levels reaches the book, currentVersion stays, the update callback is not
\* invoked.
C22_GapDiscarded ==
  [][(/\ arg'.message.kind = "delta"
      /\ LET d == arg'.message.depth
         IN ClassificationTable(current_version, d.fromVersion, d.toVersion)
              \in {GapDetected, NotSequential})
       => /\ needs_resync'
          /\ UNCHANGED <<bids, asks, current_version>>
          /\ ~ev'.called]_vars

C22_Witness ==
  /\ ev.op = "delta"
  /\ ev.status = GapDetected
  /\ needs_resync
  /\ Len(arg.message.depth.bids) > 0
  /\ arg.message.depth.bids[1][2] # 0
  /\ bids = EmptySide
  /\ current_version < arg.message.depth.fromVersion - 1

\* C23: while a side's order is flagged pending a place or cancel call of the
\* side is in flight, and until that call's response is handled no handle
\* task of the side starts, no status poll, place or cancel call is issued
\* for the side, and the side's order is not modified.
C23_PendingExcludes ==
  [][\A side \in Sides :
       current[side].is_pending
         => /\ pc[side] \in {"place", "cancel"}
            /\ waiting'[side] >= waiting[side]
            /\ (current'[side] # current[side] \/ pc'[side] # pc[side])
                 => Returns(side, pc[side])
            /\ resp'[side] # resp[side]
                 => \/ Returns(side, pc[side])
                    \/ ~resp[side].due /\ resp'[side].due /\ pc'[side] = pc[side]]_vars

\* A cancel call is in flight and a handle task of the same side waits.
C23_Witness ==
  \E side \in Sides :
    /\ CancelPending(current[side])
    /\ pc[side] = "cancel"
    /\ ~resp[side].due
    /\ waiting[side] > 0

\* C24 as stated: a place call is issued only on a book whose best bid and
\* best ask are both non-zero at that moment, and no order is submitted at
\* price 0.
C24_PlaceOnValidBook ==
  [][\A side \in Sides :
       PlaceIssued(side)
         => /\ get_best_bid(bids) # 0
            /\ get_best_ask(asks) # 0
            /\ current'[side].price # 0]_vars

\* The n-th price of S from the top (down) or from the bottom, 0 when S has
\* fewer prices.
NthOrZero(S, n, down) ==
  IF \E p \in S : IsNth(p, S, n, down)
    THEN CHOOSE p \in S : IsNth(p, S, n, down)
    ELSE 0

QtyAt(book, price) == IF price \in DOMAIN book THEN book[price] ELSE 0

\* The cancel rule for the order o resting on the side book: its price is
\* not the side's best, or the side shows at its price the order's own
\* quantity and the best level is more than a tick from the second-best
\* (0 when there is none).
CancelRule(o, book, down) ==
  LET best   == NthOrZero(DOMAIN book, 1, down)
      second == NthOrZero(DOMAIN book, 2, down)
      gap    == IF down THEN best - second ELSE second - best
  IN \/ o.price # best
     \/ QtyAt(book, o.price) = o.quantity /\ gap > tick_size

\* C25: for an Active buy order whose poll finds it open, the cancel is
\* issued exactly when the order's price differs from the best bid, or the
\* bid quantity at its price is the order's own and the best bid is more than
\* a tick above the second-best bid; an order at the best bid that shares its
\* level is left as it is.
C25_BuyCancelRule ==
  [][PollSaysOpen("BUY")
       => LET o == current["BUY"] IN
          /\ pc'["BUY"] = "cancel" <=> CancelRule(o, bids, TRUE)
          /\ should_cancel_current_buy <=> CancelRule(o, bids, TRUE)
          /\ (o.price = get_best_bid(bids) /\ QtyAt(bids, o.price) # o.quantity)
               => pc'["BUY"] = "idle" /\ current'["BUY"] = o]_vars

\* The cancel of a buy order that rests alone at the best bid, more than a
\* tick above the next bid, is in flight.
C25_Witness ==
  LET o == current["BUY"] IN
  /\ pc["BUY"] = "cancel"
  /\ CancelPending(o)
  /\ o.price = get_best_bid(bids)
  /\ QtyAt(bids, o.price) = o.quantity
  /\ get_second_best_bid(bids) # 0
  /\ get_best_bid(bids) - get_second_best_bid(bids) > tick_size

\* C26 as stated: for an Active sell order whose poll finds it open, the
\* cancel is issued exactly when the order's price differs from the best ask,
\* or the ask quantity at its price is the order's own and the second-best
\* ask is more than a tick above the best ask.
C26_SellCancelRule ==
  [][PollSaysOpen("SELL")
       => LET o == current["SELL"] IN
          /\ pc'["SELL"] = "cancel" <=> CancelRule(o, asks, FALSE)
          /\ should_cancel_current_sell <=> CancelRule(o, asks, FALSE)]_vars

\* C27: when a status poll reports CANCELED for the side's Active order the
\* side holds the order no more, and the ledger is as before: no Trade is
\* appended, position, accumulators, fees and realized P&L keep their values.
C27_CanceledClears ==
  [][\A side \in Sides :
       (/\ Returns(side, "status")
        /\ resp[side].success
        /\ resp[side].status = "CANCELED")
         => /\ Active(current[side])
            /\ Empty(current'[side]) \/ Submitting(current'[side])
            /\ pnl' = pnl]_vars

\* A poll's answer CANCELED for the side's Active order is about to be
\* handled; the order was cancelled at the exchange, not by a cancel call.
C27_Witness ==
  \E side \in Sides :
    /\ Returning(side, "status")
    /\ resp[side].success
    /\ resp[side].status = "CANCELED"
    /\ Active(current[side])
    /\ exch[current[side].order_id].status = "CANCELED"

\* C28: a handle task of a side whose lock is free can take it, and a lock
\* holder whose call has returned can go on, whatever the other side's task
\* is doing; and no step moves the lock holders of both sides.
C28_SidesIndependent ==
  /\ [](\A side \in Sides :
          /\ (waiting[side] > 0 /\ pc[side] = "idle")
               => ENABLED (handle(side) /\ UNCHANGED <<feedVars, fastVars>>)
          /\ (pc[side] # "idle" /\ resp[side].due)
               => ENABLED ((status_returned(side) \/ cancel_returned(side) \/ place_returned(side))
                           /\ UNCHANGED <<feedVars, fastVars>>))
  /\ [][~(/\ pc'["BUY"] # pc["BUY"] \/ current'["BUY"] # current["BUY"]
          /\ pc'["SELL"] # pc["SELL"] \/ current'["SELL"] # current["SELL"])]_vars

\* The buy side's place call is in flight and the sell side's task has taken
\* its lock and got its order placed, or the other way round.
C28_Witness ==
  \E side \in Sides : \E other \in Sides \ {side} :
    /\ pc[side] = "place"
    /\ ~resp[side].due
    /\ pc[other] = "idle"
    /\ Active(current[other])

\* The order id is held by the side and filled at the exchange, and no Trade
\* records it yet.
FilledUnrecorded(side, id) ==
  /\ id <= Len(exch)
  /\ exch[id].status = "FILLED"
  /\ current[side].order_id = id
  /\ \A i \in 1..Len(pnl.trades) : pnl.trades[i].order_id # id

\* The Trades that record the order id.
TradesOf(id) == {i \in 1..Len(pnl.trades) : pnl.trades[i].order_id = id}

\* C30: an order filled at the exchange while its side holds it - between
\* the poll that said NEW and the cancel, which then fails, included - is,
\* with handle tasks created for the side again and again and status polls
\* answered in the end, recorded as a Trade; and never as more than one.
C30_FillNotLost ==
  /\ \A side \in Sides : \A id \in 1..MaxOrders :
       ([]<>(waiting[side] > 0))
         => (FilledUnrecorded(side, id) ~> Cardinality(TradesOf(id)) = 1)
  /\ [](\A id \in 1..MaxOrders : Cardinality(TradesOf(id)) <= 1)

\* The cancel of an order that was filled after its poll said NEW has
\* failed, and the response is about to be handled.
C30_Witness ==
  \E side \in Sides :
    /\ Returning(side, "cancel")
    /\ ~resp[side].success
    /\ CancelPending(current[side])
    /\ FilledUnrecorded(side, current[side].order_id)

\* C31: when check_fills_periodically acts on a FILLED answer - it adjusts
\* the position, or fails in the attempt - the side's order it reads is the
\* order whose status it polled, neither cleared nor replaced since.
C31_PolledOrderRead ==
  [][(/\ fills.pc \in Sides
      /\ fast'.position # fast.position \/ fills'.pc = "crashed")
       => /\ ~fast_order[fills.pc].none
          /\ fast_order[fills.pc].order_id = fills.order_id]_vars

\* C32: with every gateway call returning, a handle task that waits for its
\* side's lock gets it, and the lock's holder finishes and releases it; a
\* call that fails leads to the release as one that succeeds does; and
\* while a task of a side waits or holds the lock, a step of that side can
\* be taken, whatever the other side's state.
C32_TasksFinish ==
  /\ \A side \in Sides :
       /\ (waiting[side] > 0 /\ pc[side] = "idle") ~> (pc[side] # "idle" \/ waiting[side] = 0)
       /\ (pc[side] # "idle") ~> (pc[side] = "idle")
       /\ []<>(pc[side] = "idle")
  /\ [][\A side \in Sides :
          (Returns(side, pc[side]) /\ ~resp[side].success) => pc'[side] = "idle"]_vars
  /\ [](\A side \in Sides :
          (waiting[side] > 0 \/ pc[side] # "idle")
            => ENABLED ((handle(side) \/ status_returned(side) \/ cancel_returned(side)
                         \/ place_returned(side) \/ get_order_status(side)
                         \/ cancel_order(side) \/ place_limit_order(side)
                         \/ request_failed(side)) /\ UNCHANGED <<feedVars, fastVars>>))

\* A handle task waits for the lock while its holder's place call has
\* failed and is about to be handled.
C32_Witness ==
  \E side \in Sides :
    /\ waiting[side] > 0
    /\ Returning(side, "place")
    /\ ~resp[side].success

\* C29: a message that fails to parse, or parses to no depth payload, is
\* dropped: book, currentVersion and needsResync are as before, no resync is
\* asked for, and run_loop goes on to the next message.
C29_UnparsedDropped ==
  [][ev'.kind \in {"malformed", "empty", "nodepth"}
       => /\ UNCHANGED <<bids, asks, current_version, needs_resync>>
          /\ run_loop_pc' # "stopped"]_vars

=============================================================================
